---------------------------- MODULE Spec2Model ----------------------------
(***************************************************************************)
(* State machine of the map annotator (the App component with IndexedDB    *)
(* persistence, the AddMarkerModal form and the MapViewer click handler).  *)
(*                                                                         *)
(* Text that the code trims (title, imageUrl) is a sequence of one-        *)
(* character strings, so that trim() is computed and not assumed.  Other   *)
(* strings are TLA+ strings.  An optional value is a sequence of length 0  *)
(* (null) or 1.                                                            *)
(***************************************************************************)
EXTENDS Integers, Sequences, FiniteSets, TLC

(***************************************************************************)
(* Bounds of the model.                                                    *)
(***************************************************************************)
MaxMarkers == 3
MaxHistory == 2
MaxTicks == 1
MaxRequests == 3
MaxImports == 1

(***************************************************************************)
(* Values.                                                                 *)
(***************************************************************************)
\* JavaScript null and undefined in the string-valued places (mapUrl).
Null == "null"
Undefined == "undefined"
\* A marker without the optional imageUrl key: reading it yields undefined.
NoImage == <<"undefined">>

\* The zoom of the map in tenths: useState(1), Math.max(0.5, .), Math.min(3, .),
\* and the 0.1 of one click on a zoom button.
InitialScale == 10
ScaleFloor == 5
ScaleCeiling == 30
ScaleStep == 1

\* Date.now() when the module is loaded.
StartTime == 1000

\* String.prototype.trim on a sequence of characters.
IsSpace(c) == c \in {" ", "\t", "\n"}

RECURSIVE TrimStart(_)
TrimStart(s) ==
    IF s # <<>> /\ IsSpace(Head(s)) THEN TrimStart(Tail(s)) ELSE s

RECURSIVE TrimEnd(_)
TrimEnd(s) ==
    IF s # <<>> /\ IsSpace(s[Len(s)]) THEN TrimEnd(SubSeq(s, 1, Len(s) - 1)) ELSE s

Trim(s) == TrimEnd(TrimStart(s))

\* JavaScript truthiness of a map reference (string | null | undefined).
TruthyUrlAlways(u) == TRUE
TruthyUrl(u) == u \notin {Null, Undefined, ""}
\* JavaScript truthiness of a marker's imageUrl (string | undefined).
TruthyImage(u) == u # NoImage /\ u # <<>>

\* `https://picsum.photos/800/400?random=${Date.now()}`
PlaceholderFixed(t) == <<"https://picsum.photos/800/400?random=", "0">>
Placeholder(t) == <<"https://picsum.photos/800/400?random=", ToString(t)>>

INITIAL_MARKERS ==
    << [id |-> "1", coords |-> [x |-> 45, y |-> 40], title |-> <<"C">>,
        description |-> "The main gathering point", type |-> "PLACE",
        imageUrl |-> NoImage, createdAt |-> StartTime],
       [id |-> "2", coords |-> [x |-> 70, y |-> 65], title |-> <<"D">>,
        description |-> "Restricted area", type |-> "WARNING",
        imageUrl |-> NoImage, createdAt |-> StartTime] >>

MarkerType == {"INFO", "WARNING", "PLACE", "SHOP"}

(***************************************************************************)
(* Inputs.                                                                 *)
(***************************************************************************)
\* What the user has typed into the form when it is submitted.
FormInputs ==
    { [title |-> <<"G">>, description |-> "", type |-> "PLACE", imageUrl |-> <<>>],
      [title |-> <<"S">>, description |-> "d", type |-> "SHOP", imageUrl |-> <<" ", "u">>],
      [title |-> <<" ">>, description |-> "d", type |-> "INFO", imageUrl |-> <<>>],
      [title |-> <<>>, description |-> "", type |-> "INFO", imageUrl |-> <<"u">>] }

\* Click positions in percent of the map rectangle, before they are constrained.
ClickPoints == { [x |-> 60, y |-> 60], [x |-> -5, y |-> 150] }

\* The image file the user picks as a map, read as a data URL.
MapFiles == {"data:mapA"}

\* The list a previous session left under the `markers` key: marker "1" with
\* an image, marker "2" deleted.
SavedMarkers ==
    << [id |-> "1", coords |-> [x |-> 45, y |-> 40], title |-> <<"C">>,
        description |-> "The main gathering point", type |-> "PLACE",
        imageUrl |-> <<"v">>, createdAt |-> StartTime] >>

\* The store a session can find at startup: empty, or left by a previous one.
InitialStores ==
    { [markers |-> <<>>, mapUrl |-> Undefined],
      [markers |-> <<SavedMarkers>>, mapUrl |-> "data:map0"],
      [markers |-> << <<>> >>, mapUrl |-> Null] }

(***************************************************************************)
(* JSON.                                                                   *)
(***************************************************************************)
MarkerKeys == {"id", "coords", "title", "description", "type", "imageUrl", "createdAt"}

\* JSON.stringify of a marker: a key whose value is undefined is left out.
MarkerToJSON(m) ==
    [k \in (IF m.imageUrl = NoImage THEN MarkerKeys \ {"imageUrl"} ELSE MarkerKeys) |-> m[k]]

\* A parsed marker object as the program reads it: a missing key reads as undefined.
MarkerFromJSON(j) ==
    [k \in MarkerKeys |->
        IF k \in DOMAIN j THEN j[k] ELSE IF k = "imageUrl" THEN NoImage ELSE Undefined]

\* JSON.stringify(projectData): the text of the project file.
JSONStringify(doc) ==
    <<"json", [version |-> doc.version, timestamp |-> doc.timestamp, mapUrl |-> doc.mapUrl,
               markers |-> <<"array", [i \in 1..Len(doc.markers) |-> MarkerToJSON(doc.markers[i])]>>]>>

\* JSON.parse(text): throws on text that is not JSON.
JSONParseLenient(text) ==
    IF text[1] = "json" THEN [ok |-> TRUE, data |-> text[2]]
    ELSE [ok |-> TRUE, data |-> [version |-> "1.0"]]
JSONParse(text) ==
    IF text[1] = "json" THEN [ok |-> TRUE, data |-> text[2]] ELSE [ok |-> FALSE]

\* data.mapUrl of a parsed document.
DocMapUrl(data) == IF "mapUrl" \in DOMAIN data THEN data.mapUrl ELSE Undefined
\* Array.isArray(data.markers)
IsArray(data) == "markers" \in DOMAIN data /\ data.markers[1] = "array"
\* data.markers as the list the store holds after setMarkers(data.markers).
DocMarkers(data) == [i \in 1..Len(data.markers[2]) |-> MarkerFromJSON(data.markers[2][i])]

\* A marker of a project file written by hand: nothing in the file format keeps
\* its coordinates on the map.
ImportedMarker ==
    [id |-> "77", coords |-> [x |-> 150, y |-> 20], title |-> <<"I">>, description |-> "imp",
     type |-> "INFO", imageUrl |-> <<"w">>, createdAt |-> 500]

\* Project files the user can pick or drop.
ProjectFiles ==
    { <<"json", [version |-> "1.0", timestamp |-> 0, mapUrl |-> Null, markers |-> <<"array", <<>>>>]>>,
      <<"json", [version |-> "1.0", timestamp |-> 1, mapUrl |-> "data:mapB",
                 markers |-> <<"array", <<ImportedMarker>>>>]>>,
      <<"json", [version |-> "1.0", timestamp |-> 2, mapUrl |-> "data:mapB",
                 markers |-> <<"string", "oops">>]>>,
      <<"json", [version |-> "1.0"]>>,
      <<"garbage", "{not json">> }


(***************************************************************************)
(* State.                                                                  *)
(***************************************************************************)
VARIABLES
    markers,        \* useState<MarkerData[]>: the live marker list
    mapUrl,         \* useState<string | null>: the map reference
    history,        \* useState<MarkerData[][]>: the undo stack
    isEditing,      \* edit mode
    saveStatus,     \* 'idle' | 'saving' | 'saved'
    tempCoords,     \* <<>> or <<coords>>: the add form is open
    editingMarker,  \* <<>> or <<marker>>: the edit form is open
    activeMarker,   \* <<>> or <<marker>>: the detail panel is shown
    timers,         \* pending setTimeout callbacks, all of 500 ms: they fire in order
    requests,       \* IndexedDB requests in flight, served in order
    db,             \* the object store: keys `markers` and `mapUrl`
    now,            \* Date.now()
    downloads,      \* <<>> or <<text>>: the project file last exported
    alert,          \* <<>> or <<call>>: a callback is blocked in window.alert(msg)
    opLog,          \* observer: the lists seen before the operations not yet undone
    undone,         \* observer: the lists the current run of undos has to restore
    roundTrip,      \* observer: the state an export, import or restart began in, its phase
    rejected,       \* observer: the last event was a form submission that was refused
    imports,        \* observer: the number of project files read so far
    scale,          \* useState(1): the zoom of the map, in tenths
    mutated         \* observer: a marker has been added, edited, deleted or an undo done

store == <<markers, mapUrl, history>>
ui == <<isEditing, tempCoords, editingMarker, activeMarker>>
persist == <<saveStatus, timers, requests, db>>
vars == <<markers, mapUrl, history, isEditing, saveStatus, tempCoords, editingMarker,
          activeMarker, timers, requests, db, now, scale, downloads, alert, opLog, undone,
          roundTrip, rejected, imports, mutated>>

\* saveToDB(key, value), and what the caller does when it settles.
Put(key, value, then, data) ==
    [op |-> "put", key |-> key, value |-> value, then |-> then, data |-> data]
\* getFromDB(key)
Get(key, then) ==
    [op |-> "get", key |-> key, value |-> <<>>, then |-> then, data |-> <<>>]

\* The auto-save effect on [markers]: clearTimeout(timer), setTimeout(saveState, 500).
DebounceKeepsOld(ts) == Append(ts, "save")
Debounce(ts) == Append(SelectSeq(ts, LAMBDA t : t # "save"), "save")

\* The effect on [mapUrl]: a changed, truthy map reference is written at once.
MapEffectNever(old, new) == <<>>
MapEffect(old, new) ==
    IF new # old /\ TruthyUrl(new) THEN <<Put("mapUrl", new, "mapEffect", <<>>)>> ELSE <<>>

\* The state after the first render and its effects, whatever the store holds.
Mounted ==
    /\ markers = INITIAL_MARKERS
    /\ mapUrl = Null
    /\ history = <<>>
    /\ isEditing = FALSE
    /\ saveStatus = "idle"
    /\ tempCoords = <<>>
    /\ editingMarker = <<>>
    /\ activeMarker = <<>>
    /\ timers = <<"save">>                         \* the auto-save effect runs on mount
    /\ requests = <<Get("markers", "loadMarkers")>> \* loadState() runs on mount
    /\ now = StartTime
    /\ scale = InitialScale
    /\ downloads = <<>>
    /\ alert = <<>>
    /\ opLog = <<>>
    /\ undone = <<>>
    /\ roundTrip = <<>>
    /\ rejected = FALSE
    /\ imports = 0
    /\ mutated = FALSE

Init ==
    /\ Mounted
    /\ db \in InitialStores

\* No callback is blocked in alert(): events are handled.
Running == alert = <<>>
ModalOpen == tempCoords # <<>> \/ editingMarker # <<>>
\* The main screen is rendered (not replaced by the detail panel).
MainScreen == Running /\ activeMarker = <<>>
\* The modal overlay covers the map: the map and its pins take clicks without it.
MapReachable == MainScreen /\ ~ModalOpen

(***************************************************************************)
(* The marker handlers of App.                                             *)
(***************************************************************************)
\* data.imageUrl.trim() || (editingMarker?.imageUrl || placeholder)
FinalImageUrlFresh(data, em, t) ==
    IF Trim(data.imageUrl) # <<>> THEN Trim(data.imageUrl) ELSE Placeholder(t)
FinalImageUrl(data, em, t) ==
    IF Trim(data.imageUrl) # <<>> THEN Trim(data.imageUrl)
    ELSE IF em # <<>> /\ TruthyImage(em[1].imageUrl) THEN em[1].imageUrl
    ELSE Placeholder(t)

\* prev.map(m => m.id === editingMarker.id ? { ...m, ...data, imageUrl } : m)
UpdateExisting(prev, em, data, img) ==
    [i \in 1..Len(prev) |->
        IF prev[i].id = em.id
        THEN [prev[i] EXCEPT !.title = data.title, !.description = data.description,
                             !.type = data.type, !.imageUrl = img]
        ELSE prev[i]]

\* { id: Date.now().toString(), coords: tempCoords, ...data, imageUrl, createdAt: Date.now() }
NewMarker(coords, data, img, t) ==
    [id |-> ToString(t), coords |-> coords, title |-> data.title,
     description |-> data.description, type |-> data.type, imageUrl |-> img, createdAt |-> t]

\* prev.filter(m => m.id !== editingMarker.id)
RemoveAll(prev, em) == <<>>
RemoveMarker(prev, em) == SelectSeq(prev, LAMBDA m : m.id # em.id)

\* setHistory(prev => [...prev, markers])
PushNothing(prev, ms) == prev
PushOverwriting(prev, ms) == [i \in 1..(Len(prev) + 1) |-> ms]
PushHistory(prev, ms) == Append(prev, ms)

\* handleMarkerSave(data), called by the form with a title that is not blank.
handleMarkerSave(data) ==
    /\ ModalOpen                                  \* if (!tempCoords && !editingMarker) return
    /\ Len(history) < MaxHistory
    /\ history' = PushHistory(history, markers)
    /\ LET img == FinalImageUrl(data, editingMarker, now) IN
       IF editingMarker # <<>>
       THEN /\ markers' = UpdateExisting(markers, editingMarker[1], data, img)
            /\ editingMarker' = <<>>
            /\ tempCoords' = tempCoords
       ELSE /\ Len(markers) < MaxMarkers
            /\ markers' = Append(markers, NewMarker(tempCoords[1], data, img, now))
            /\ tempCoords' = <<>>
            /\ editingMarker' = editingMarker
    /\ timers' = Debounce(timers)
    /\ opLog' = Append(opLog, markers)
    /\ undone' = <<>>
    /\ roundTrip' = <<>>
    /\ rejected' = FALSE
    /\ imports' = imports
    /\ mutated' = TRUE
    /\ UNCHANGED <<mapUrl, isEditing, saveStatus, activeMarker, requests, db, now, scale,
                   downloads, alert>>

\* AddMarkerModal.handleSubmit: if (!title.trim()) return
TitleAcceptedIfNotEmpty(title) == title # <<>>
TitleAccepted(title) == Trim(title) # <<>>

\* The form is submitted with what the user typed.
ModalSubmit(data) ==
    /\ MainScreen /\ ModalOpen
    /\ IF TitleAccepted(data.title)
       THEN handleMarkerSave(data)
       ELSE /\ rejected' = TRUE
            /\ imports' = imports
            /\ mutated' = mutated
            /\ UNCHANGED <<store, ui, persist, now, scale, downloads, alert, opLog, undone, roundTrip>>

\* handleMarkerDelete, the form's Delete button (shown for an existing marker).
ModalDelete ==
    /\ MainScreen
    /\ editingMarker # <<>>                       \* if (!editingMarker) return
    /\ Len(history) < MaxHistory
    /\ history' = PushHistory(history, markers)
    /\ markers' = RemoveMarker(markers, editingMarker[1])
    /\ editingMarker' = <<>>
    /\ timers' = Debounce(timers)
    /\ opLog' = Append(opLog, markers)
    /\ undone' = <<>>
    /\ roundTrip' = <<>>
    /\ rejected' = FALSE
    /\ imports' = imports
    /\ mutated' = TRUE
    /\ UNCHANGED <<mapUrl, isEditing, saveStatus, tempCoords, activeMarker, requests, db,
                   now, scale, downloads, alert>>

\* onClose of the form: Cancel, or the X.
ModalCloseAddOnly ==
    /\ MainScreen /\ ModalOpen
    /\ tempCoords' = <<>>
    /\ undone' = <<>>
    /\ rejected' = FALSE
    /\ UNCHANGED <<store, isEditing, editingMarker, activeMarker, persist, now, scale, downloads,
                   alert, opLog, roundTrip, imports, mutated>>
ModalClose ==
    /\ MainScreen /\ ModalOpen
    /\ tempCoords' = <<>>
    /\ editingMarker' = <<>>
    /\ undone' = <<>>
    /\ rejected' = FALSE
    /\ imports' = imports
    /\ mutated' = mutated
    /\ UNCHANGED <<store, isEditing, activeMarker, persist, now, scale, downloads, alert, opLog,
                   roundTrip>>

\* history[history.length - 1]
PopOldest(ms, h) == h[1]
PopHistory(ms, h) == h[Len(h)]

\* setHistory(prev => prev.slice(0, -1))
SliceAll(h) == <<>>
SliceLast(h) == SubSeq(h, 1, Len(h) - 1)

handleUndo ==
    /\ history # <<>>                             \* if (history.length === 0) return
    /\ markers' = PopHistory(markers, history)
    /\ history' = SliceLast(history)
    /\ timers' = Debounce(timers)
    /\ undone' = IF opLog # <<>> THEN Append(undone, opLog[Len(opLog)]) ELSE <<>>
    /\ opLog' = IF opLog # <<>> THEN SubSeq(opLog, 1, Len(opLog) - 1) ELSE <<>>
    /\ roundTrip' = <<>>
    /\ rejected' = FALSE
    /\ imports' = imports
    /\ mutated' = TRUE
    /\ UNCHANGED <<mapUrl, ui, saveStatus, requests, db, now, scale, downloads, alert>>

\* The Undo button of the toolbar, disabled while the history is empty.
UndoButton ==
    /\ MainScreen
    /\ handleUndo

\* handleKeyDown: Ctrl/Cmd+Z counts while !tempCoords && !editingMarker.
ShortcutAlways == TRUE
ShortcutAllowed == ~ModalOpen

\* Ctrl/Cmd+Z on the window, ignored while a form is open.
UndoShortcut ==
    /\ Running
    /\ ShortcutAllowed
    /\ handleUndo

(***************************************************************************)
(* Navigation.                                                             *)
(***************************************************************************)
\* Math.max(0, Math.min(100, v))
Min(a, b) == IF a < b THEN a ELSE b
Max(a, b) == IF a > b THEN a ELSE b
ConstrainNothing(v) == v
Constrain(v) == Max(0, Min(100, v))

\* MapViewer.handleClick, then handleMapClick(coords).
MapClick(p) ==
    /\ MapReachable
    /\ isEditing                                  \* onClick={isEditing ? handleClick : undefined}
    /\ tempCoords' = << [x |-> Constrain(p.x), y |-> Constrain(p.y)] >>
    /\ editingMarker' = <<>>
    /\ undone' = <<>>
    /\ rejected' = FALSE
    /\ imports' = imports
    /\ mutated' = mutated
    /\ UNCHANGED <<store, isEditing, activeMarker, persist, now, scale, downloads, alert, opLog,
                   roundTrip>>

\* MarkerPin's onClick, then handleMarkerClick(marker).
MarkerClick(i) ==
    /\ MapReachable
    /\ IF isEditing
       THEN /\ editingMarker' = <<markers[i]>>
            /\ tempCoords' = <<>>
            /\ activeMarker' = activeMarker
       ELSE /\ activeMarker' = <<markers[i]>>
            /\ UNCHANGED <<editingMarker, tempCoords>>
    /\ undone' = <<>>
    /\ rejected' = FALSE
    /\ imports' = imports
    /\ mutated' = mutated
    /\ UNCHANGED <<store, isEditing, persist, now, scale, downloads, alert, opLog, roundTrip>>

\* onBack of the detail panel.
DetailBack ==
    /\ Running
    /\ activeMarker # <<>>
    /\ activeMarker' = <<>>
    /\ undone' = <<>>
    /\ rejected' = FALSE
    /\ imports' = imports
    /\ mutated' = mutated
    /\ UNCHANGED <<store, isEditing, tempCoords, editingMarker, persist, now, scale, downloads,
                   alert, opLog, roundTrip>>

\* The Edit Markers / Done Editing button.
ToggleEditing ==
    /\ MainScreen
    /\ isEditing' = ~isEditing
    /\ undone' = <<>>
    /\ rejected' = FALSE
    /\ imports' = imports
    /\ mutated' = mutated
    /\ UNCHANGED <<store, tempCoords, editingMarker, activeMarker, persist, now, scale, downloads,
                   alert, opLog, roundTrip>>

\* The zoom buttons of the header: setScale(s => Math.max(0.5, s - 0.1)) and
\* setScale(s => Math.min(3, s + 0.1)).
ZoomedOut(s) == Max(ScaleFloor, s - ScaleStep)
ZoomedInUnbounded(s) == s + ScaleStep
ZoomedIn(s) == Min(ScaleCeiling, s + ScaleStep)

ZoomOut ==
    /\ MainScreen
    /\ scale' = ZoomedOut(scale)
    /\ rejected' = FALSE
    /\ UNCHANGED <<store, ui, persist, now, downloads, alert, opLog, undone, roundTrip,
                   imports, mutated>>

ZoomIn ==
    /\ MainScreen
    /\ scale' = ZoomedIn(scale)
    /\ rejected' = FALSE
    /\ UNCHANGED <<store, ui, persist, now, downloads, alert, opLog, undone, roundTrip,
                   imports, mutated>>

(***************************************************************************)
(* The map reference.                                                      *)
(***************************************************************************)
\* setMapUrl(url) and the effect on [mapUrl] that follows the render.
SetMapUrlFreshBaseline(url) ==
    /\ Len(requests) + Len(MapEffect(mapUrl, url)) <= MaxRequests
    /\ mapUrl' = url
    /\ requests' = requests \o MapEffect(mapUrl, url)
    /\ history' = <<>>
    /\ opLog' = <<>>
    /\ undone' = <<>>
    /\ roundTrip' = <<>>
    /\ rejected' = FALSE
    /\ UNCHANGED <<markers, ui, saveStatus, timers, db, now, scale, downloads, alert, imports, mutated>>
SetMapUrl(url) ==
    /\ Len(requests) + Len(MapEffect(mapUrl, url)) <= MaxRequests
    /\ mapUrl' = url
    /\ requests' = requests \o MapEffect(mapUrl, url)
    /\ undone' = <<>>
    /\ roundTrip' = IF url = mapUrl THEN roundTrip ELSE <<>>
    /\ rejected' = FALSE
    /\ imports' = imports
    /\ mutated' = mutated
    /\ UNCHANGED <<markers, history, ui, saveStatus, timers, db, now, scale, downloads, alert, opLog>>

\* handleMapUpload: the New Map input, once fileToBase64 has resolved.
MapUpload(file) ==
    /\ MainScreen
    /\ SetMapUrl(file)

\* handleDrop with an image file, once fileToBase64 has resolved.
DropImage(file) ==
    /\ MainScreen
    /\ SetMapUrl(file)

\* handleDeleteMap, confirmed: setMapUrl(null); await saveToDB('mapUrl', null).
DeleteMap ==
    /\ MainScreen
    /\ TruthyUrl(mapUrl)                          \* the button is rendered for a map
    /\ Len(requests) < MaxRequests
    /\ mapUrl' = Null
    /\ requests' = Append(requests, Put("mapUrl", Null, "deleteMap", <<>>))
    /\ undone' = <<>>
    /\ roundTrip' = <<>>
    /\ rejected' = FALSE
    /\ imports' = imports
    /\ mutated' = mutated
    /\ UNCHANGED <<markers, history, ui, saveStatus, timers, db, now, scale, downloads, alert, opLog>>

(***************************************************************************)
(* Export and import of a project file.                                    *)
(***************************************************************************)
\* The observer of a round trip: where it is, and the store as it was exported.
Phase(p, ms, url) == <<[phase |-> p, markers |-> ms, mapUrl |-> url]>>
InPhase(p) == roundTrip # <<>> /\ roundTrip[1].phase = p
Advance(p) == <<[roundTrip[1] EXCEPT !.phase = p]>>

ImportInFlight ==
    \E i \in 1..Len(requests) : requests[i].then \in {"importMap", "importMarkers"}

\* handleExportProject: the document offered as a download.
ProjectDataWithoutMap ==
    [version |-> "1.0", timestamp |-> now, mapUrl |-> Null, markers |-> markers]
ProjectData == [version |-> "1.0", timestamp |-> now, mapUrl |-> mapUrl, markers |-> markers]

ExportProject ==
    /\ MainScreen
    /\ downloads' = <<JSONStringify(ProjectData)>>
    /\ undone' = <<>>
    /\ roundTrip' = IF ImportInFlight THEN <<>> ELSE Phase("exported", markers, mapUrl)
    /\ rejected' = FALSE
    /\ imports' = imports
    /\ mutated' = mutated
    /\ UNCHANGED <<store, ui, persist, now, scale, alert, opLog>>

\* The files that can be imported: the prepared ones and the one last exported.
Importable == ProjectFiles \cup {downloads[i] : i \in 1..Len(downloads)}

\* alert("Project loaded and saved to local storage!"), of handleProjectLoad only.
Loaded(handler) ==
    IF handler = "handleProjectLoad"
    THEN <<[msg |-> "Project loaded and saved to local storage!", err |-> "none"]>>
    ELSE <<>>

\* catch (err): alert("Failed to load project. Invalid file format."), alert("Invalid JSON")
Caught(handler, err) ==
    IF handler = "handleProjectLoad"
    THEN <<[msg |-> "Failed to load project. Invalid file format.", err |-> err]>>
    ELSE <<[msg |-> "Invalid JSON", err |-> err]>>

\* The import from `if (Array.isArray(data.markers))` on: setMarkers and the
\* write of the list, then (after it) setHistory([]).
ImportMarkers(data, handler, queue) ==
    IF IsArray(data)
    THEN /\ Len(DocMarkers(data)) <= MaxMarkers
         /\ markers' = DocMarkers(data)
         /\ timers' = Debounce(timers)
         /\ requests' = Append(queue, Put("markers", DocMarkers(data), "importMarkers",
                                          <<data, handler>>))
         /\ UNCHANGED <<history, opLog, alert>>
    ELSE /\ history' = <<>>
         /\ opLog' = <<>>
         /\ requests' = queue
         /\ alert' = Loaded(handler)
         /\ UNCHANGED <<markers, timers>>

\* reader.onload of handleProjectLoad and of handleDrop, up to its first await.
ReaderOnLoad(text, handler) ==
    LET parsed == JSONParse(text)
        own == downloads = <<text>> /\ InPhase("exported") /\ ~ImportInFlight
    IN  /\ imports < MaxImports
        /\ IF ~parsed.ok
           THEN /\ alert' = Caught(handler, "SyntaxError")
                /\ rejected' = FALSE
                /\ imports' = imports + 1
                /\ mutated' = mutated
                /\ UNCHANGED <<store, ui, persist, now, scale, downloads, opLog, undone, roundTrip>>
           ELSE /\ Len(requests) + 2 <= MaxRequests
                /\ IF TruthyUrl(DocMapUrl(parsed.data))
                   THEN /\ mapUrl' = DocMapUrl(parsed.data)
                        /\ requests' =
                               Append(requests, Put("mapUrl", DocMapUrl(parsed.data), "importMap",
                                                    <<parsed.data, handler>>))
                               \o MapEffect(mapUrl, DocMapUrl(parsed.data))
                        /\ UNCHANGED <<markers, timers, history, opLog, alert>>
                   ELSE /\ ImportMarkers(parsed.data, handler, requests)
                        /\ mapUrl' = mapUrl
                /\ undone' = <<>>
                /\ roundTrip' = IF own THEN Advance("importing")
                                ELSE IF TruthyUrl(DocMapUrl(parsed.data)) \/ IsArray(parsed.data)
                                     THEN Phase("replacing", markers, mapUrl)
                                     ELSE <<>>
                /\ rejected' = FALSE
                /\ imports' = imports + 1
                /\ mutated' = mutated
                /\ UNCHANGED <<ui, saveStatus, db, now, scale, downloads>>

\* handleProjectLoad: the Import button's file input.
ProjectLoad(text) ==
    /\ MainScreen
    /\ ReaderOnLoad(text, "handleProjectLoad")

\* handleDrop with a .json file.
DropProject(text) ==
    /\ MainScreen
    /\ ReaderOnLoad(text, "handleDrop")

\* The user closes the alert box, and the callback that raised it returns.
DismissAlert ==
    /\ alert # <<>>
    /\ alert' = <<>>
    /\ rejected' = FALSE
    /\ imports' = imports
    /\ mutated' = mutated
    /\ UNCHANGED <<store, ui, persist, now, scale, downloads, opLog, undone, roundTrip>>

(***************************************************************************)
(* Timers.                                                                 *)
(***************************************************************************)
\* saveState: setSaveStatus('saving'); await saveToDB('markers', markers).
SaveTimerFiresSilently ==
    /\ Running
    /\ timers # <<>> /\ Head(timers) = "save"
    /\ Len(requests) < MaxRequests
    /\ timers' = Tail(timers)
    /\ requests' = Append(requests, Put("markers", markers, "autosave", <<>>))
    /\ rejected' = FALSE
    /\ UNCHANGED <<store, ui, saveStatus, db, now, scale, downloads, alert, opLog, undone, roundTrip,
                   imports, mutated>>
SaveTimerFires ==
    /\ Running
    /\ timers # <<>> /\ Head(timers) = "save"
    /\ Len(requests) < MaxRequests
    /\ timers' = Tail(timers)
    /\ saveStatus' = "saving"
    /\ requests' = Append(requests, Put("markers", markers, "autosave", <<>>))
    /\ rejected' = FALSE
    /\ imports' = imports
    /\ mutated' = mutated
    /\ UNCHANGED <<store, ui, db, now, scale, downloads, alert, opLog, undone, roundTrip>>

\* () => setSaveStatus('saved')
SavedTimerFires ==
    /\ Running
    /\ timers # <<>> /\ Head(timers) = "saved"
    /\ timers' = Tail(timers)
    /\ saveStatus' = "saved"
    /\ rejected' = FALSE
    /\ imports' = imports
    /\ mutated' = mutated
    /\ UNCHANGED <<store, ui, requests, db, now, scale, downloads, alert, opLog, undone, roundTrip>>

\* Time passes.
Tick ==
    /\ Running
    /\ now < StartTime + MaxTicks
    /\ now' = now + 1
    /\ scale' = scale
    /\ rejected' = FALSE
    /\ imports' = imports
    /\ mutated' = mutated
    /\ UNCHANGED <<store, ui, persist, downloads, alert, opLog, undone, roundTrip>>

(***************************************************************************)
(* IndexedDB.  Every saveToDB and getFromDB opens the database and then    *)
(* runs one transaction on the one object store; the requests are served   *)
(* in the order they were made, and each one succeeds or fails.            *)
(***************************************************************************)
\* store.put(value, key)
StoredNowhere(d, r) == d
StoredFirstWins(d, r) ==
    IF r.op = "put" /\ r.key = "markers" /\ d.markers = <<>>
    THEN [d EXCEPT !.markers = <<r.value>>]
    ELSE IF r.op = "put" /\ r.key = "mapUrl" THEN [d EXCEPT !.mapUrl = r.value] ELSE d
Stored(d, r) ==
    IF r.op = "put"
    THEN [d EXCEPT ![r.key] = IF r.key = "markers" THEN <<r.value>> ELSE r.value]
    ELSE d

\* The oldest request succeeds, and the code awaiting it goes on.
RequestSucceeds ==
    /\ Running
    /\ requests # <<>>
    /\ LET r == Head(requests)
           rest == Tail(requests)
       IN  /\ db' = Stored(db, r)
           /\ CASE r.then = "loadMarkers" ->      \* if (savedMarkers) setMarkers(savedMarkers)
                    /\ markers' = IF db.markers # <<>> THEN db.markers[1] ELSE markers
                    /\ timers' = IF db.markers # <<>> THEN Debounce(timers) ELSE timers
                    /\ requests' = Append(rest, Get("mapUrl", "loadMap"))
                    /\ roundTrip' = IF db.markers # <<>> /\ ~InPhase("restarted")
                                    THEN <<>> ELSE roundTrip
                    /\ undone' = <<>>
                    /\ UNCHANGED <<mapUrl, history, opLog, alert>>
                [] r.then = "loadMap" ->          \* if (savedMap) setMapUrl(savedMap)
                    /\ mapUrl' = IF TruthyUrl(db.mapUrl) THEN db.mapUrl ELSE mapUrl
                    /\ requests' = rest \o (IF TruthyUrl(db.mapUrl)
                                            THEN MapEffect(mapUrl, db.mapUrl) ELSE <<>>)
                    /\ roundTrip' = IF InPhase("restarted") THEN Advance("loaded")
                                    ELSE IF TruthyUrl(db.mapUrl) THEN <<>> ELSE roundTrip
                    /\ undone' = <<>>
                    /\ UNCHANGED <<markers, timers, history, opLog, alert>>
                [] r.then = "autosave" ->         \* setTimeout(() => setSaveStatus('saved'), 500)
                    /\ timers' = Append(timers, "saved")
                    /\ requests' = rest
                    /\ UNCHANGED <<store, opLog, undone, roundTrip, alert>>
                [] r.then \in {"mapEffect", "deleteMap"} ->
                    /\ requests' = rest
                    /\ UNCHANGED <<store, timers, opLog, undone, roundTrip, alert>>
                [] r.then = "importMap" ->        \* the import goes on after its first await
                    /\ ImportMarkers(r.data[1], r.data[2], rest)
                    /\ roundTrip' = IF IsArray(r.data[1]) THEN roundTrip
                                    ELSE IF InPhase("importing") THEN Advance("done") ELSE <<>>
                    /\ undone' = <<>>
                    /\ mapUrl' = mapUrl
                [] r.then = "importMarkers" ->    \* setHistory([]); alert(...)
                    /\ history' = <<>>
                    /\ opLog' = <<>>
                    /\ requests' = rest
                    /\ alert' = Loaded(r.data[2])
                    /\ roundTrip' = IF InPhase("importing") THEN Advance("done") ELSE <<>>
                    /\ undone' = <<>>
                    /\ UNCHANGED <<markers, mapUrl, timers>>
    /\ rejected' = FALSE
    /\ imports' = imports
    /\ mutated' = mutated
    /\ UNCHANGED <<ui, saveStatus, now, scale, downloads>>

\* The oldest request fails: the promise rejects and the catch, if any, runs.
RequestFailsRetrying ==
    /\ Running
    /\ requests # <<>>
    /\ requests' = Tail(requests)
    /\ timers' = Append(timers, "save")
    /\ rejected' = FALSE
    /\ UNCHANGED <<store, ui, saveStatus, db, now, scale, downloads, alert, opLog, undone,
                   roundTrip, imports, mutated>>
RequestFails ==
    /\ Running
    /\ requests # <<>>
    /\ requests' = Tail(requests)
    /\ alert' = IF Head(requests).then \in {"importMap", "importMarkers"}
                THEN Caught(Head(requests).data[2], "DBError") ELSE alert
    /\ roundTrip' = IF Head(requests).then \in {"importMap", "importMarkers"}
                    THEN (IF InPhase("importing") THEN Advance("done") ELSE <<>>)
                    ELSE roundTrip
    /\ rejected' = FALSE
    /\ imports' = imports
    /\ mutated' = mutated
    /\ UNCHANGED <<store, ui, saveStatus, timers, db, now, scale, downloads, opLog, undone>>


(***************************************************************************)
(* The page is loaded again: the component state starts afresh, the timers *)
(* and the requests of the old page are gone, the database stays.          *)
(***************************************************************************)
\* Nothing is left to be written: no timer is pending, no request in flight.
Quiescent == timers = <<>> /\ requests = <<>>

Restart ==
    /\ Running
    /\ markers' = INITIAL_MARKERS
    /\ mapUrl' = Null
    /\ history' = <<>>
    /\ isEditing' = FALSE
    /\ saveStatus' = "idle"
    /\ tempCoords' = <<>>
    /\ editingMarker' = <<>>
    /\ activeMarker' = <<>>
    /\ timers' = <<"save">>
    /\ requests' = <<Get("markers", "loadMarkers")>>
    /\ opLog' = <<>>
    /\ undone' = <<>>
    /\ roundTrip' = IF Quiescent THEN Phase("restarted", markers, mapUrl) ELSE <<>>
    /\ rejected' = FALSE
    /\ mutated' = FALSE
    /\ scale' = InitialScale
    /\ UNCHANGED <<db, now, downloads, alert, imports>>
(***************************************************************************)
(* The specification: every handler, timer and request, with every input.  *)
(***************************************************************************)
Next ==
    \/ \E data \in FormInputs : ModalSubmit(data)
    \/ ModalDelete
    \/ ModalClose
    \/ UndoButton
    \/ UndoShortcut
    \/ \E p \in ClickPoints : MapClick(p)
    \/ \E i \in 1..Len(markers) : MarkerClick(i)
    \/ DetailBack
    \/ ToggleEditing
    \/ \E file \in MapFiles : MapUpload(file)
    \/ \E file \in MapFiles : DropImage(file)
    \/ DeleteMap
    \/ downloads = <<>> /\ ExportProject
    \/ \E text \in Importable : ProjectLoad(text)
    \/ \E text \in Importable : DropProject(text)
    \/ DismissAlert
    \/ SaveTimerFires
    \/ SavedTimerFires
    \/ RequestSucceeds
    \/ RequestFails
    \/ Tick
    \/ Restart
    \/ ZoomOut
    \/ ZoomIn

Spec == Init /\ [][Next]_vars

(***************************************************************************)
(* The marker list and its undo stack: the forms, the undo and the         *)
(* startup load, from a fresh store and from one a session has left.       *)
(***************************************************************************)
MarkersStores ==
    { [markers |-> <<>>, mapUrl |-> Undefined],
      [markers |-> <<SavedMarkers>>, mapUrl |-> "data:map0"] }

MarkersClicks == { [x |-> -5, y |-> 150] }

InitMarkers ==
    /\ Mounted
    /\ db \in MarkersStores

NextMarkers ==
    \/ \E data \in FormInputs : ModalSubmit(data)
    \/ ModalDelete
    \/ ModalClose
    \/ UndoButton
    \/ UndoShortcut
    \/ \E p \in MarkersClicks : MapClick(p)
    \/ \E i \in 1..Len(markers) : MarkerClick(i)
    \/ DetailBack
    \/ ToggleEditing
    \/ RequestSucceeds
    \/ RequestFails

SpecMarkers == InitMarkers /\ [][NextMarkers]_vars

(***************************************************************************)
(* Export and import of projects: one marker can be added (and undone), the *)
(* map can be set and deleted, and every project file can be imported.     *)
(***************************************************************************)
ProjectStores == { [markers |-> <<>>, mapUrl |-> Undefined] }

ProjectForms == { d \in FormInputs : d.title = <<"G">> }

InitProject ==
    /\ Mounted
    /\ db \in ProjectStores

NextProject ==
    \/ imports = 0 /\ \E data \in ProjectForms : ModalSubmit(data)
    \/ imports = 0 /\ \E p \in MarkersClicks : MapClick(p)
    \/ ToggleEditing
    \/ imports = 0 /\ \E file \in MapFiles : MapUpload(file)
    \/ downloads = <<>> /\ ExportProject
    \/ \E text \in Importable : ProjectLoad(text)
    \/ \E text \in Importable : DropProject(text)
    \/ DismissAlert
    \/ RequestSucceeds
    \/ RequestFails

SpecProject == InitProject /\ [][NextProject]_vars


(***************************************************************************)
(* Saving in the background: markers are added and the additions undone    *)
(* while the timers of the auto-save fire and its writes succeed or fail.  *)
(***************************************************************************)
InitSave ==
    /\ Mounted
    /\ db \in ProjectStores

NextSave ==
    \/ \E data \in ProjectForms : ModalSubmit(data)
    \/ UndoButton
    \/ \E p \in MarkersClicks : MapClick(p)
    \/ ToggleEditing
    \/ SaveTimerFires
    \/ SavedTimerFires
    \/ RequestSucceeds
    \/ RequestFails

SpecSave == InitSave /\ [][NextSave]_vars

(***************************************************************************)
(* Adding markers: the map is clicked inside and outside of it, the form   *)
(* is submitted with and without an image, while time passes.              *)
(***************************************************************************)
AddStores ==
    { [markers |-> <<>>, mapUrl |-> Undefined],
      [markers |-> << <<>> >>, mapUrl |-> Null] }

AddForms == { d \in FormInputs : Trim(d.title) # <<>> }

InitAdd ==
    /\ Mounted
    /\ db \in AddStores

NextAdd ==
    \/ \E data \in AddForms : ModalSubmit(data)
    \/ ModalClose
    \/ UndoButton
    \/ \E p \in ClickPoints : MapClick(p)
    \/ ToggleEditing
    \/ Tick
    \/ RequestSucceeds
    \/ RequestFails

SpecAdd == InitAdd /\ [][NextAdd]_vars

(***************************************************************************)
(* The map and the startup: a session starts on any of the stores, the map *)
(* is uploaded, dropped and deleted, and a marker is added and undone.     *)
(***************************************************************************)
InitMap ==
    /\ Mounted
    /\ db \in InitialStores

NextMap ==
    \/ \E data \in ProjectForms : ModalSubmit(data)
    \/ UndoButton
    \/ UndoShortcut
    \/ \E p \in MarkersClicks : MapClick(p)
    \/ ToggleEditing
    \/ \E file \in MapFiles : MapUpload(file)
    \/ \E file \in MapFiles : DropImage(file)
    \/ DeleteMap
    \/ RequestSucceeds
    \/ RequestFails

SpecMap == InitMap /\ [][NextMap]_vars

(***************************************************************************)
(* Restarts: markers are deleted, the map is uploaded and deleted, every   *)
(* write succeeds, and the page is loaded again at any moment.             *)
(***************************************************************************)
NextRestart ==
    \/ isEditing /\ markers # <<>> /\ MarkerClick(1)
    \/ ModalDelete
    \/ ToggleEditing
    \/ \E file \in MapFiles : MapUpload(file)
    \/ DeleteMap
    \/ SaveTimerFires
    \/ SavedTimerFires
    \/ RequestSucceeds
    \/ Restart

SpecRestart == InitProject /\ [][NextRestart]_vars

(***************************************************************************)
(* The writes of both keys, each of which may fail: one store, additions   *)
(* of one marker, uploads and deletions of the map, the debounce timer.    *)
(***************************************************************************)
NextWrites ==
    \/ \E data \in ProjectForms : ModalSubmit(data)
    \/ \E p \in MarkersClicks : MapClick(p)
    \/ ToggleEditing
    \/ \E file \in MapFiles : MapUpload(file)
    \/ DeleteMap
    \/ SaveTimerFires
    \/ SavedTimerFires
    \/ RequestSucceeds
    \/ RequestFails
SpecWrites == InitProject /\ [][NextWrites]_vars

(***************************************************************************)
(* Writes of the marker list that overlap, every one succeeding: the       *)
(* debounced auto-save after additions and the write of an import.         *)
(***************************************************************************)
NextOverlap ==
    \/ \E data \in ProjectForms : ModalSubmit(data)
    \/ \E p \in MarkersClicks : MapClick(p)
    \/ ToggleEditing
    \/ \E text \in Importable : ProjectLoad(text)
    \/ DismissAlert
    \/ SaveTimerFires
    \/ SavedTimerFires
    \/ RequestSucceeds
SpecOverlap == InitProject /\ [][NextOverlap]_vars

(***************************************************************************)
(* Edits after the undo stack was cleared: additions, the export of the    *)
(* project and the import of the exported file, then the edit form.        *)
(***************************************************************************)
ReimportStores == { [markers |-> << <<>> >>, mapUrl |-> Null] }

InitReimport ==
    /\ Mounted
    /\ db \in ReimportStores

NextReimport ==
    \/ \E data \in AddForms : ModalSubmit(data)
    \/ \E p \in MarkersClicks : MapClick(p)
    \/ markers # <<>> /\ MarkerClick(1)
    \/ ToggleEditing
    \/ downloads = <<>> /\ history # <<>> /\ ExportProject
    \/ \E i \in 1..Len(downloads) : ProjectLoad(downloads[i])
    \/ DismissAlert
    \/ RequestSucceeds
SpecReimport == InitReimport /\ [][NextReimport]_vars

(***************************************************************************)
(* The snapshots of the undo stack: additions, edits, deletions and undo   *)
(* around the startup read and around the import of one project file.      *)
(***************************************************************************)
SnapshotFiles == { text \in ProjectFiles : text[1] = "json" /\ IsArray(text[2])
                                               /\ DocMarkers(text[2]) # <<>> }

NextSnapshots ==
    \/ \E data \in ProjectForms : ModalSubmit(data)
    \/ \E p \in MarkersClicks : MapClick(p)
    \/ markers # <<>> /\ MarkerClick(1)
    \/ ModalDelete
    \/ UndoButton
    \/ ToggleEditing
    \/ \E text \in SnapshotFiles : ProjectLoad(text)
    \/ DismissAlert
    \/ RequestSucceeds
SpecSnapshots == InitReimport /\ [][NextSnapshots]_vars

(***************************************************************************)
(* The zoom of the map, among additions, undo and map uploads.             *)
(***************************************************************************)
NextZoom ==
    \/ ZoomOut
    \/ ZoomIn
    \/ \E data \in ProjectForms : ModalSubmit(data)
    \/ \E p \in MarkersClicks : MapClick(p)
    \/ UndoButton
    \/ ToggleEditing
    \/ \E file \in MapFiles : MapUpload(file)
    \/ RequestSucceeds
SpecZoom == InitProject /\ [][NextZoom]_vars
(***************************************************************************)
(* Properties.                                                             *)
(***************************************************************************)
\* C1: after any operations (add, edit, delete), each undo of a run of N undos
\* restores the list that was present before the N-th last operation, and every
\* operation not yet undone can be undone.
UndoRestores ==
    /\ Len(opLog) <= Len(history)
    /\ undone # <<>> => markers = undone[Len(undone)]

\* C1 witness: two undos after two operations, restoring two different lists.
UndoneTwice == Len(undone) = 2 /\ undone[1] # undone[2]

\* C9: a form submitted with an empty or blank title changes neither the marker
\* list, nor the undo stack, nor the open form.
BlankTitleRejected ==
    [][\A d \in FormInputs :
         (Trim(d.title) = <<>> /\ ModalSubmit(d))
             => UNCHANGED <<markers, history, tempCoords, editingMarker>>]_vars

\* C9 witness: a blank title has just been refused on the edit form, with a
\* marker list and an undo stack to protect.
BlankRefused == rejected /\ editingMarker # <<>> /\ history # <<>>

\* The markers an edit through the open form applies to.
Edited(i) == markers[i].id = editingMarker[1].id
\* The edit form is submitted with an accepted title and an empty or blank imageUrl.
EditWithoutImage(d) ==
    /\ editingMarker # <<>>
    /\ Trim(d.title) # <<>>
    /\ Trim(d.imageUrl) = <<>>
    /\ ModalSubmit(d)

\* C10 as claimed: an edit with an empty imageUrl leaves the marker's imageUrl
\* as it was and updates title, description and type.
EditKeepsImageUrl ==
    [][\A d \in FormInputs :
         EditWithoutImage(d)
             => \A i \in 1..Len(markers) :
                    Edited(i) => /\ markers'[i].imageUrl = markers[i].imageUrl
                                 /\ markers'[i].title = d.title
                                 /\ markers'[i].description = d.description
                                 /\ markers'[i].type = d.type]_vars

\* C10 amended: an edit with an empty imageUrl gives the marker the imageUrl it
\* had when the form was opened if that is non-empty, and a placeholder made
\* from the current time otherwise; title, description and type are updated.
EditImageUrlRule ==
    [][\A d \in FormInputs :
         EditWithoutImage(d)
             => \A i \in 1..Len(markers) :
                    Edited(i) => /\ markers'[i].imageUrl =
                                        IF TruthyImage(editingMarker[1].imageUrl)
                                        THEN editingMarker[1].imageUrl
                                        ELSE Placeholder(now)
                                 /\ markers'[i].title = d.title
                                 /\ markers'[i].description = d.description
                                 /\ markers'[i].type = d.type]_vars

\* C10 witness: a marker that had an image has been edited with an empty
\* imageUrl (only the first form input has the title G, and it has no image).
EditedKeepingImage ==
    \E i \in 1..Len(markers) :
        markers[i].title = <<"G">> /\ markers[i].imageUrl \in {<<"u">>, <<"v">>}


(***************************************************************************)
(* Export and import.                                                      *)
(***************************************************************************)
\* The map reference a document asks for: its mapUrl, null when it has none.
WantedMapUrl(data) == IF TruthyUrl(DocMapUrl(data)) THEN DocMapUrl(data) ELSE Null

\* C2: when the import of the file just exported has ended, with nothing else
\* done in between, the marker list and the map reference equal those at the
\* moment of the export and the undo stack is empty.
RoundTripRestores ==
    InPhase("done") =>
        /\ markers = roundTrip[1].markers
        /\ mapUrl = roundTrip[1].mapUrl
        /\ history = <<>>

\* C3: the step that completes the import of a well-formed document leaves the
\* document's marker list, the document's map reference (null when it names
\* none) and an empty undo stack.
ImportReplacesStore ==
    [][(requests # <<>> /\ Head(requests).then = "importMarkers" /\ RequestSucceeds) =>
          /\ markers' = DocMarkers(Head(requests).data[1])
          /\ mapUrl' = WantedMapUrl(Head(requests).data[1])
          /\ history' = <<>>]_vars

\* C4: importing a parseable document whose markers field is not a sequence
\* changes neither the marker list, the map reference, the undo stack nor the
\* two persisted keys.
ShapeErrorRejected ==
    [][\A text \in ProjectFiles :
          (/\ JSONParse(text).ok
           /\ ~IsArray(JSONParse(text).data)
           /\ ProjectLoad(text) \/ DropProject(text)) =>
              UNCHANGED <<markers, mapUrl, history, db>>]_vars

\* C5: importing a text that is not JSON changes neither the marker list, the
\* map reference, the undo stack nor the two persisted keys.
ParseErrorRejected ==
    [][\A text \in ProjectFiles :
          (text[1] # "json" /\ (ProjectLoad(text) \/ DropProject(text))) =>
              UNCHANGED <<markers, mapUrl, history, db>>]_vars

\* ... and it happens with a map loaded and a change that can be undone.
ParseErrorShown ==
    /\ alert # <<>>
    /\ alert[1].err = "SyntaxError"
    /\ history # <<>>
    /\ TruthyUrl(mapUrl)
    /\ TruthyUrl(db.mapUrl)

(***************************************************************************)
(* The auto-save and its status.                                           *)
(***************************************************************************)
Count(seq, v) == Cardinality({i \in 1..Len(seq) : seq[i] = v})
Writes(queue) == SelectSeq(queue, LAMBDA r : r.then = "autosave")
WriteInFlight == Writes(requests) # <<>>

\* C6: at most one debounce timer is pending; a change of the marker list
\* (every one pushes or pops the undo stack) starts no write and leaves one
\* timer pending, the one it started; and when that timer fires, one write of
\* the markers key is started, with the marker list of that moment.
DebouncedWrite ==
    /\ [](Count(timers, "save") <= 1)
    /\ [][/\ history' # history =>
                /\ Writes(requests') = Writes(requests)
                /\ Count(timers', "save") = 1
                /\ timers'[Len(timers')] = "save"
          /\ Count(timers', "save") < Count(timers, "save") =>
                /\ Writes(requests') = Append(Writes(requests), Put("markers", markers, "autosave", <<>>))
                /\ markers' = markers]_vars

\* ... a burst that ends with an undo has been followed by the one write of the
\* list, nothing having been written before.
BurstWritten ==
    /\ undone # <<>>
    /\ mutated
    /\ Count(timers, "save") = 0
    /\ Len(Writes(requests)) = 1
    /\ Writes(requests)[1].value = markers
    /\ db.markers = <<>>

\* C7 as stated: right after a change of the marker list the status is
\* `saving`, and the status leaves `idle` only once a change has been made.
StatusFollowsChange ==
    [][/\ history' # history => saveStatus' = "saving"
       /\ (saveStatus = "idle" /\ saveStatus' # "idle") => mutated]_vars

\* C7 amended: a change of the marker list leaves the status as it is; the
\* status becomes `saving` when the debounce timer fires and the write starts,
\* and `saved` when the timer fires that a successful write has started; it
\* changes in no other way.
StatusFollowsWrite ==
    [][/\ history' # history => saveStatus' = saveStatus
       /\ Count(timers', "save") < Count(timers, "save") =>
             saveStatus' = "saving" /\ Len(Writes(requests')) = Len(Writes(requests)) + 1
       /\ Count(timers', "saved") > Count(timers, "saved") =>
             /\ requests # <<>> /\ Head(requests).then = "autosave"
             /\ db'.markers = <<Head(requests).value>>
       /\ saveStatus' # saveStatus =>
             \/ saveStatus' = "saving" /\ Count(timers', "save") < Count(timers, "save")
             \/ saveStatus' = "saved" /\ Count(timers', "saved") < Count(timers, "saved")]_vars

\* ... a change has been made and written, and the status is `saved`.
StatusSavedAfterChange ==
    /\ mutated
    /\ saveStatus = "saved"
    /\ db.markers = <<markers>>
    /\ history # <<>>

\* C8: the status is `idle` only if no write of the markers has been started,
\* `saving` only while one is in flight or its success is about to be
\* reported, and `saved` only if no newer write is in flight and the list last
\* written is stored.
StatusMeansWhatItSays ==
    /\ saveStatus = "idle" => ~WriteInFlight /\ Count(timers, "saved") = 0
    /\ saveStatus = "saving" => WriteInFlight \/ Count(timers, "saved") > 0
    /\ saveStatus = "saved" => ~WriteInFlight /\ db.markers # <<>>

(***************************************************************************)
(* Adding a marker.                                                        *)
(***************************************************************************)
\* The step adds a marker through the form opened by a click on the map.
Adds == tempCoords # <<>> /\ tempCoords' = <<>> /\ Len(markers') = Len(markers) + 1
Last(seq) == seq[Len(seq)]
InRange(v) == 0 <= v /\ v <= 100

\* C11: a click left of or above the map gives 0, one right of or below it
\* gives 100, one inside gives its own coordinate, component by component; and
\* the marker then added is stored with exactly these coordinates.
AddClampsCoords ==
    [][/\ \A p \in ClickPoints : MapClick(p) =>
             tempCoords' = << [x |-> IF p.x < 0 THEN 0 ELSE IF p.x > 100 THEN 100 ELSE p.x,
                               y |-> IF p.y < 0 THEN 0 ELSE IF p.y > 100 THEN 100 ELSE p.y] >>
       /\ Adds => Last(markers').coords = tempCoords[1]]_vars

\* ... a marker clicked at (-5, 150) and one clicked at (60, 60) are stored.
ClampedAndUnchangedStored ==
    \E i, j \in 1..Len(markers) :
        /\ markers[i].id \notin {"1", "2"} /\ markers[j].id \notin {"1", "2"}
        /\ markers[i].coords = [x |-> 0, y |-> 100]
        /\ markers[j].coords = [x |-> 60, y |-> 60]

\* C12: every marker of the list lies on the map: both coordinates are within
\* [0, 100].
CoordsInRange ==
    \A i \in 1..Len(markers) : InRange(markers[i].coords.x) /\ InRange(markers[i].coords.y)

\* C13: the ids of the markers of the list are pairwise distinct.
IdsDistinct ==
    \A i, j \in 1..Len(markers) : i # j => markers[i].id # markers[j].id

\* The i-th marker was added through a form whose imageUrl was left empty.
AddedWithoutImage(i) ==
    /\ \A k \in 1..Len(INITIAL_MARKERS) : markers[i].id # INITIAL_MARKERS[k].id
    /\ \E d \in AddForms : Trim(d.imageUrl) = <<>> /\ d.title = markers[i].title

\* C14: two markers added with an empty imageUrl at different times have two
\* different image references, neither of them empty or missing.
PlaceholdersDiffer ==
    \A i, j \in 1..Len(markers) :
        (/\ AddedWithoutImage(i) /\ AddedWithoutImage(j)
         /\ markers[i].createdAt # markers[j].createdAt) =>
            /\ markers[i].imageUrl # markers[j].imageUrl
            /\ markers[i].imageUrl \notin {<<>>, NoImage}
            /\ markers[j].imageUrl \notin {<<>>, NoImage}

\* ... two such markers, added at two different times, are in the list.
TwoPlaceholders ==
    \E i, j \in 1..Len(markers) :
        /\ AddedWithoutImage(i) /\ AddedWithoutImage(j)
        /\ markers[i].createdAt # markers[j].createdAt

\* The step is an undo.
Undoes == history # <<>> /\ history' = SubSeq(history, 1, Len(history) - 1)

\* C15: an addition pushes the list as it was onto the undo stack and appends
\* one marker: the markers that were there keep their values and their places
\* and the new one, the last, has an image reference; an undo then gives back
\* the list that the addition pushed.
AddPushesAndAppends ==
    [][/\ Adds =>
             /\ history' = Append(history, markers)
             /\ SubSeq(markers', 1, Len(markers)) = markers
             /\ Last(markers').imageUrl \notin {<<>>, NoImage}
       /\ Undoes => markers' = Last(history)]_vars

\* ... the default two markers, after an addition and its undo.
AddedAndUndone ==
    /\ undone = <<INITIAL_MARKERS>>
    /\ markers = INITIAL_MARKERS
    /\ history = <<>>
    /\ db.markers = <<>>

(***************************************************************************)
(* Editing and deleting.                                                   *)
(***************************************************************************)
\* The marker of the open edit form is no longer in the list.
FormMarkerAbsent ==
    /\ editingMarker # <<>>
    /\ \A i \in 1..Len(markers) : markers[i].id # editingMarker[1].id

\* C16: saving or deleting through an edit form whose marker is no longer in
\* the list changes neither the marker list nor the undo stack.
AbsentIdIsNoOp ==
    [][(FormMarkerAbsent /\ (ModalDelete \/ \E d \in FormInputs : ModalSubmit(d))) =>
          UNCHANGED <<markers, history>>]_vars

(***************************************************************************)
(* The map reference and the startup.                                      *)
(***************************************************************************)
\* C17: an upload, a drop of an image and the deletion of the map leave the
\* marker list and the undo stack as they are, and an undo leaves the map
\* reference as it is.
MapChangesNotUndoable ==
    [][/\ ((\E file \in MapFiles : MapUpload(file) \/ DropImage(file)) \/ DeleteMap) =>
             UNCHANGED <<markers, history>>
       /\ (UndoButton \/ UndoShortcut) => mapUrl' = mapUrl]_vars

\* ... an addition made before the upload of a map has been undone after it.
UndoneUnderNewMap ==
    /\ mapUrl = "data:mapA"
    /\ db.mapUrl = Undefined
    /\ undone # <<>>
    /\ markers = Last(undone)

\* The oldest request is the read (or write) with this continuation, and it succeeds.
Completes(then) == requests # <<>> /\ Head(requests).then = then /\ RequestSucceeds

\* C18: the program starts with the default markers and no map; the read of
\* the markers key, when it finds a list (an empty one too), makes it the
\* marker list and otherwise leaves the list alone, and the read of the mapUrl
\* key follows; that one, when it finds a map reference, makes it the map and
\* otherwise leaves the map alone.  So with no key stored and nothing done by
\* the user the list is the default one.
StartupReadsBothKeys ==
    /\ []((db.markers = <<>> /\ ~mutated) => markers = INITIAL_MARKERS)
    /\ [][/\ Completes("loadMarkers") =>
                /\ markers' = IF db.markers # <<>> THEN db.markers[1] ELSE markers
                /\ Last(requests') = Get("mapUrl", "loadMap")
          /\ Completes("loadMap") =>
                mapUrl' = IF db.mapUrl \in {Null, Undefined, ""} THEN mapUrl ELSE db.mapUrl]_vars

\* ... the list and the map of the previous session are on screen.
PreviousSessionLoaded ==
    /\ markers = SavedMarkers
    /\ mapUrl = "data:map0"
    /\ requests = <<>>
    /\ ~mutated

\* C19: when the page is loaded again with nothing left to be written, every
\* write having succeeded, then once both startup reads have completed the
\* marker list and the map reference are those of the moment of the restart.
RestartRestores ==
    InPhase("loaded") =>
        /\ markers = roundTrip[1].markers
        /\ mapUrl = roundTrip[1].mapUrl

\* ... the restart came after all markers and the map had been deleted.
RestartedEmpty ==
    /\ InPhase("loaded")
    /\ roundTrip[1].markers = <<>>
    /\ roundTrip[1].mapUrl = Null
    /\ db.mapUrl = Null

\* C20: when the import of a project has completed, the markers key holds
\* the document's markers and the mapUrl key the document's mapUrl: no map
\* (null, or nothing stored) when the document names none.
ImportPersistsBothKeys ==
    [][Completes("importMarkers") =>
          /\ db'.markers = <<DocMarkers(Head(requests).data[1])>>
          /\ IF TruthyUrl(DocMapUrl(Head(requests).data[1]))
             THEN db'.mapUrl = DocMapUrl(Head(requests).data[1])
             ELSE db'.mapUrl \in {Null, Undefined}]_vars

(***************************************************************************)
(* Writes of the map reference.                                            *)
(***************************************************************************)
\* The writes of the mapUrl key among the requests of a queue.
MapWrites(queue) == SelectSeq(queue, LAMBDA r : r.op = "put" /\ r.key = "mapUrl")

\* C21: a step that changes the map reference to a non-null value puts a write
\* of the new value to the mapUrl key into the request queue in that same step,
\* with no timer set; a step that clears the map reference puts a write of null
\* to that key into the queue; a step that changes the marker list or the undo
\* stack adds no write of the mapUrl key.
MapWrittenAtOnce ==
    [][/\ (mapUrl' # mapUrl /\ TruthyUrl(mapUrl'))
            => /\ requests' # <<>>
               /\ Last(requests').op = "put"
               /\ Last(requests').key = "mapUrl"
               /\ Last(requests').value = mapUrl'
               /\ Len(MapWrites(requests')) = Len(MapWrites(requests)) + 1
               /\ timers' = timers
       /\ (mapUrl' # mapUrl /\ mapUrl' = Null)
            => /\ requests' = Append(requests, Last(requests'))
               /\ Last(requests').op = "put"
               /\ Last(requests').key = "mapUrl"
               /\ Last(requests').value = Null
       /\ (markers' # markers \/ history' # history)
            => Len(MapWrites(requests')) <= Len(MapWrites(requests))]_vars

\* A map was uploaded and then deleted after a marker change: both writes of the
\* mapUrl key are in flight, the new value first and the null after it.
UploadAndDeleteInFlight ==
    /\ history # <<>>
    /\ mapUrl = Null
    /\ Len(requests) = 2
    /\ requests[1].key = "mapUrl" /\ requests[1].value = "data:mapA"
    /\ requests[2].key = "mapUrl" /\ requests[2].value = Null

(***************************************************************************)
(* Failed writes.                                                          *)
(***************************************************************************)
\* C22: the step in which a write of the markers key or of the mapUrl key
\* fails leaves the marker list, the map reference and the undo stack as they
\* were, and it neither puts the write back into the request queue nor sets a
\* timer for it.
FailedWriteChangesNothing ==
    [][(requests # <<>> /\ Head(requests).op = "put" /\ RequestFails)
            => /\ UNCHANGED <<markers, mapUrl, history>>
               /\ requests' = Tail(requests)
               /\ timers' = timers]_vars

\* Every write has failed: a marker was added and a map uploaded, nothing is in
\* flight and no save is scheduled, and neither key was ever stored.
AllWritesFailed ==
    /\ history # <<>>
    /\ mapUrl = "data:mapA"
    /\ requests = <<>>
    /\ Count(timers, "save") = 0
    /\ db.markers = <<>>
    /\ db.mapUrl = Undefined

(***************************************************************************)
(* The undo shortcut.                                                      *)
(***************************************************************************)
\* C23: while the add form or the edit form is open, Ctrl/Cmd+Z cannot take an
\* undo step, so it changes neither the marker list nor the undo stack; while no
\* form is open and the stack is not empty it can, and the step it takes puts
\* the last snapshot back as the marker list and removes it from the stack.
ShortcutSuppressedInForms ==
    /\ [](ModalOpen => ~ENABLED UndoShortcut)
    /\ []((Running /\ ~ModalOpen /\ history # <<>>) => ENABLED UndoShortcut)
    /\ [][UndoShortcut => /\ markers' = Last(history)
                          /\ history' = SubSeq(history, 1, Len(history) - 1)]_vars

\* The edit form is open over a list that has a snapshot to go back to.
EditFormOverHistory ==
    /\ editingMarker # <<>>
    /\ history # <<>>
    /\ markers # Last(history)

(***************************************************************************)
(* Overlapping writes of the marker list.                                  *)
(***************************************************************************)
\* C24: when every write succeeds, then whenever no request is in flight and no
\* save is scheduled, the markers key holds the marker list in memory, whatever
\* the order in which additions, imports, timers and write completions were
\* interleaved.
LastWriteWins ==
    (requests = <<>> /\ Count(timers, "save") = 0) => db.markers = <<markers>>

\* Two writes of the marker list are in flight at once: the auto-save of an
\* older list first, the write of an imported list after it.
TwoWritesInFlight ==
    /\ Len(requests) = 2
    /\ requests[1].then = "autosave" /\ requests[2].then = "importMarkers"
    /\ requests[1].value # requests[2].value
    /\ requests[2].value = markers

(***************************************************************************)
(* The frame of an edit and of a delete.                                   *)
(***************************************************************************)
\* The edit form of a marker whose id is in the list is submitted with an
\* accepted title.
EditOfExisting(d) ==
    /\ editingMarker # <<>>
    /\ \E i \in 1..Len(markers) : Edited(i)
    /\ Trim(d.title) # <<>>
    /\ ModalSubmit(d)

\* C25: an edit of a marker whose id is in the list keeps the length and the
\* order of the list, keeps the id, the coords and the createdAt of every
\* marker, and changes one marker only: every other marker is unchanged.
EditChangesOneMarker ==
    [][\A d \in FormInputs :
         EditOfExisting(d)
             => /\ Len(markers') = Len(markers)
                /\ \A i \in 1..Len(markers) :
                      /\ markers'[i].id = markers[i].id
                      /\ markers'[i].coords = markers[i].coords
                      /\ markers'[i].createdAt = markers[i].createdAt
                /\ \E k \in 1..Len(markers) :
                      \A i \in 1..Len(markers) : i # k => markers'[i] = markers[i]]_vars

\* C26: when the edit form of a marker whose id is in the list is left by its
\* Delete button, the list as it was is pushed onto the undo stack, no marker
\* with that id is left, and the markers with other ids are all still there,
\* unchanged and in the order they had.
DeleteRemovesThatId ==
    [][(editingMarker # <<>> /\ (\E i \in 1..Len(markers) : Edited(i)) /\ ModalDelete)
            => LET kept == {i \in 1..Len(markers) : ~Edited(i)} IN
               /\ history' = Append(history, markers)
               /\ Len(markers') = Cardinality(kept)
               /\ \A i \in kept :
                     markers'[Cardinality({j \in kept : j <= i})] = markers[i]]_vars

\* A marker has been deleted: the snapshot on top of the stack has one marker
\* more than the list, and the id of one of its markers is no longer in the list.
DeletedAndSnapshotKept ==
    /\ history # <<>>
    /\ Len(Last(history)) = Len(markers) + 1
    /\ markers # <<>>
    /\ \E i \in 1..Len(Last(history)) :
          \A k \in 1..Len(markers) : markers[k].id # Last(history)[i].id

(***************************************************************************)
(* Undo, and the snapshots on the stack.                                   *)
(***************************************************************************)
\* C27: every undo step, by the button or by the shortcut, is taken on a stack
\* that is not empty, makes the top snapshot the marker list and removes that
\* snapshot only; on an empty stack neither the button nor the shortcut can
\* take a step; and on the main screen the Undo button is enabled exactly when
\* the stack is not empty.
UndoPopsTop ==
    /\ [][(UndoButton \/ UndoShortcut)
              => /\ history # <<>>
                 /\ markers' = history[Len(history)]
                 /\ Len(history') = Len(history) - 1
                 /\ \A i \in 1..Len(history') : history'[i] = history[i]]_vars
    /\ [](history = <<>> => (~ENABLED UndoButton /\ ~ENABLED UndoShortcut))
    /\ [](MainScreen => (ENABLED UndoButton <=> history # <<>>))

\* Of two snapshots the top one has been undone: the list is that snapshot and
\* the one below it is still on the stack.
TopUndoneOfTwo ==
    /\ Len(undone) = 1
    /\ markers = undone[1]
    /\ Len(history) = 1
    /\ history[1] # markers

ExportIsFaithfulAndPure ==
    [][downloads' # downloads
          => LET doc == JSONParse(downloads'[Len(downloads')]) IN
             /\ doc.ok
             /\ doc.data.version = "1.0"
             /\ doc.data.mapUrl = mapUrl
             /\ IsArray(doc.data)
             /\ DocMarkers(doc.data) = markers
             /\ UNCHANGED <<markers, mapUrl, history, saveStatus, db, requests, timers>>]_vars

\* A project with an uploaded map and an added marker has been exported.
ExportedMapAndMarkers ==
    /\ InPhase("exported")
    /\ downloads # <<>>
    /\ mapUrl = "data:mapA"
    /\ Len(markers) = Len(INITIAL_MARKERS) + 1
    /\ history # <<>>

\* C30: when a write of an import fails, then after the failing step either
\* the import has done nothing (the marker list and the map reference are
\* those from before the import, the undo stack is as it was), or it has done
\* everything (the marker list and the map reference are the document's and
\* the undo stack is empty).
FailedImportAllOrNothing ==
    [][(/\ requests # <<>>
        /\ Head(requests).then \in {"importMap", "importMarkers"}
        /\ roundTrip # <<>>
        /\ RequestFails)
          => LET doc == Head(requests).data[1]
                 before == roundTrip[1]
             IN  \/ /\ markers' = before.markers
                    /\ mapUrl' = before.mapUrl
                    /\ history' = history
                 \/ /\ IsArray(doc)
                    /\ markers' = DocMarkers(doc)
                    /\ mapUrl' = WantedMapUrl(doc)
                    /\ history' = <<>>]_vars

(***************************************************************************)
(* The startup read and the changes made before it completes.              *)
(***************************************************************************)
\* C31: when the startup read of a persisted marker list completes after the
\* user has changed the list, it leaves the list as the user made it, and the
\* undo stack then holds no snapshot of the built-in default list.
StartupReadKeepsUserChanges ==
    [][(Completes("loadMarkers") /\ db.markers # <<>> /\ mutated)
          => /\ markers' = markers
             /\ \A i \in 1..Len(history') : history'[i] # INITIAL_MARKERS]_vars

\* C32: once the markers key holds a list other than the built-in default
\* markers, no write puts the default markers there (no action of the
\* specification it is checked in lets the user build the default list again).
DefaultsNeverOverwrite ==
    [][(db.markers # <<>> /\ db.markers # <<INITIAL_MARKERS>>)
          => db'.markers # <<INITIAL_MARKERS>>]_vars

(***************************************************************************)
(* The forms.                                                              *)
(***************************************************************************)
\* C33: the add form and the edit form are never open together; a form opens
\* only by a click on the map or on a marker while edit mode is on; every
\* accepted save and every delete (the steps that push a snapshot) and every
\* cancel leave no form open; and no save both appends a marker and changes
\* one that was there.
OneFormAtATime ==
    /\ [](~(tempCoords # <<>> /\ editingMarker # <<>>))
    /\ [][/\ (~ModalOpen /\ ModalOpen')
               => /\ isEditing
                  /\ \/ \E p \in MarkersClicks : MapClick(p)
                     \/ \E i \in 1..Len(markers) : MarkerClick(i)
          /\ (Len(history') > Len(history) \/ ModalClose) => ~ModalOpen'
          /\ Len(history') > Len(history)
               => ~(/\ Len(markers') = Len(markers) + 1
                    /\ \E i \in 1..Len(markers) : markers'[i] # markers[i])]_vars

\* A marker was added through the add form and then changed through the edit
\* form, and no form is open.
ClosedAfterAddAndEdit ==
    /\ ~ModalOpen
    /\ Len(history) = 2
    /\ Len(history[2]) = Len(history[1]) + 1
    /\ Len(markers) = Len(history[2])
    /\ markers # history[2]

(***************************************************************************)
(* The zoom.                                                               *)
(***************************************************************************)
\* C34: the scale is always within [0.5, 3] (5 to 30 tenths); a step changes
\* it by one tenth at most; zoom-out at the lower bound and zoom-in at the
\* upper bound leave it as it is; and a zoom step changes neither the marker
\* list, the map reference nor the undo stack.
ZoomStaysInRange ==
    /\ [](scale \in ScaleFloor..ScaleCeiling)
    /\ [][/\ scale' # scale
               => /\ scale' \in {scale - ScaleStep, scale + ScaleStep}
                  /\ UNCHANGED <<markers, mapUrl, history>>
          /\ (ZoomOut /\ scale = ScaleFloor) => scale' = scale
          /\ (ZoomIn /\ scale = ScaleCeiling) => scale' = scale
          /\ (ZoomOut \/ ZoomIn) => UNCHANGED <<markers, mapUrl, history>>]_vars

\* The map is zoomed in as far as it goes, over a changed marker list and an
\* uploaded map.
ZoomedToTheCeiling ==
    /\ scale = ScaleCeiling
    /\ history # <<>>
    /\ mapUrl = "data:mapA"
=============================================================================
